---- MODULE Spec2Model ----
(***************************************************************************)
(* FMPFeedbackGCPService: the four Cloud Function entry points             *)
(* (fmpfeedback_upload, fmpfeedback_comment, fmpfeedback_mailgun_pubsub,   *)
(* fmpfeedback_caretaker) as a state machine over the Firestore            *)
(* collection, its "uploads" subcollections, the Pub/Sub topic and the     *)
(* Mailgun transport.                                                      *)
(*                                                                         *)
(* Time is counted in minutes.  A timestamp string is the record           *)
(* [set, t, tz]: set = FALSE is the empty string "", tz tells whether the  *)
(* ISO string carries a UTC offset ("+00:00"), which is what makes         *)
(* datetime.fromisoformat return an offset-aware datetime.                 *)
(***************************************************************************)
EXTENDS Integers, Sequences, FiniteSets, Bags

\* ---------------------------------------------------------------- bounds
MaxDocs == 1
MaxRuns == 2
MaxTicks == 1
MaxEmails == 2
MaxEvents == 2
MaxChildren == 1
\* for the runs about the two caps: the uploads of one document, the
\* documents of one run, the upload invocations in flight
MaxCapChildren == 12
MaxQuotaDocs == 6
MaxCalls == 2

\* ------------------------------------------------------ program constants
FEEDBACK_MAX_PENDING_SUBMITS == 5
FEEDBACK_MAX_UPLOADS == 10
FEEDBACK_MAX_UPLOAD_SIZE == 1048576
CARETAKER_REPUBLISH_AFTER == 24
CARETAKER_KEEP_HISTORY == 30
FIVE_MINUTES == 5
MINUTES_PER_HOUR == 60
HOURS_PER_DAY == 24

\* the shared secret of the deployment
FEEDBACK_SENDER_AUTHTOKEN == "secret"
FEEDBACK_PUBSUB_ACTION_NEWFEEDBACK == "feedbackSumitted"
FEEDBACK_PUBSUB_ACTION_CARETAKER_RETRY == "caretakerRetry"

\* ------------------------------------------------------------ value sets
\* the ids the store generates are 1, 2, ...; a run of the model fixes how
\* many of them there are
IdsUpTo(n) == 1..n
\* the absent token (None)
NO_TOKEN == 0
\* the caller identity of an upload is username.removesuffix("/token"),
\* which is "" for the username "/token"
UploadEmails == {"e1"}
CommentEmails == {"e1"}
Texts == {"t1"}
Names == {"n1"}
PubsubActions == {FEEDBACK_PUBSUB_ACTION_NEWFEEDBACK, FEEDBACK_PUBSUB_ACTION_CARETAKER_RETRY}
MsgsOver(ids) == [action : PubsubActions, docId : ids]
\* the messages any publisher of the topic can send: without an action,
\* with an action of another application, without a document id
OtherActions == {"", "unknown"}
AnyMsgsOver(ids) == [action : PubsubActions \cup OtherActions, docId : ids \cup {NO_TOKEN}]
\* how far the clock moves between two invocations: to each of the
\* caretaker's three thresholds, and past the longest of them
TickSteps == {FIVE_MINUTES,
              CARETAKER_REPUBLISH_AFTER * MINUTES_PER_HOUR,
              CARETAKER_KEEP_HISTORY * HOURS_PER_DAY * MINUTES_PER_HOUR,
              CARETAKER_KEEP_HISTORY * HOURS_PER_DAY * MINUTES_PER_HOUR + FIVE_MINUTES}

\* ------------------------------------------------------------ timestamps
EmptyStr == [set |-> FALSE, t |-> 0, tz |-> FALSE]
\* datetime.now(timezone.utc).isoformat(timespec="seconds"): "...+00:00"
IsoformatAware(t) == [set |-> TRUE, t |-> t, tz |-> TRUE]
\* datetime.utcnow().isoformat(): no offset
IsoformatNaive(t) == [set |-> TRUE, t |-> t, tz |-> FALSE]
\* datetime.fromisoformat(s) <= cutoff, cutoff = datetime.utcnow() - delta
\* (naive): ValueError on "", TypeError when s parses to an aware datetime
CompareRaises(s) == (~s.set) \/ s.tz
AtOrBefore(s, cutoff) == s.t <= cutoff

\* -------------------------------------------------------------- documents
FEEDBACK_EMPTY_DOC ==
    [archivedTimestamp |-> EmptyStr,
     clientIp |-> "",
     feedbackTimestamp |-> EmptyStr,
     feedbackEmail |-> "",
     hasUploads |-> FALSE,
     feedbackMessage |-> "",
     feedbackName |-> "",
     feedbackSubject |-> "",
     mailgunMessageId |-> 0]

VARIABLES
    now,        \* the wall clock, minutes
    ticks,      \* how many times the clock advanced
    docs,       \* the feedback collection: id -> document, for existing ids
    nextId,     \* the id the store generates next
    uploads,    \* the "uploads" subcollection of each document path
    channel,    \* the Pub/Sub topic: message -> number of undelivered copies
    runs,       \* the invocations of fmpfeedback_mailgun_pubsub that have read
                \* their document: a bag of [msg, doc]
    outbox,     \* what Mailgun accepted, per feedback document id
    stamps,     \* how many times the archival update was written, per id
    reply,      \* the response of the latest invocation
    calls       \* the invocations of fmpfeedback_upload that have read the
                \* uploads of their token and not yet added theirs: a bag of
                \* [token, seen]

vars == <<now, ticks, docs, nextId, uploads, channel, runs,
          outbox, stamps, reply, calls>>

\* the ids of the run, and the messages about them
DocIds == DOMAIN uploads
Msgs == DOMAIN channel
\* what a publisher other than fmpfeedback_comment puts on the topic
ForeignMsgs == {m \in Msgs : m.action = FEEDBACK_PUBSUB_ACTION_CARETAKER_RETRY}

Exists(id) == id \in DOMAIN docs
Archived(d) == d.archivedTimestamp.set
\* messages on the topic or being handled
Pending(ch) == Cardinality({<<m, k>> \in Msgs \X (1..MaxEvents) : k <= ch[m]})
Backlog(ch) == Pending(ch) + BagCardinality(runs)
\* what a sweep did: when it ran, how many of its three scans completed,
\* whether a collaborator failed in it, and the ids it deleted or republished
NoSweep == [at |-> -1, scans |-> 0, faulted |-> FALSE,
            expired |-> {}, reaped |-> {}, stale |-> {}]
Reply(op, id, result) ==
    [op |-> op, result |-> result, token |-> NO_TOKEN, sweep |-> NoSweep]
\* lines 203-209 of fmpfeedback_upload: the response carries the document id
UploadReply(id, result) == [Reply("upload", id, result) EXCEPT !.token = id]

\* an empty collection, an empty topic, nothing sent
InitOn(ids, msgs) ==
    /\ now = 0
    /\ ticks = 0
    /\ docs = [id \in {} |-> FEEDBACK_EMPTY_DOC]
    /\ nextId = 1
    /\ uploads = [id \in ids |-> <<>>]
    /\ channel = [m \in msgs |-> 0]
    /\ runs = EmptyBag
    /\ outbox = [id \in ids |-> <<>>]
    /\ stamps = [id \in ids |-> 0]
    /\ reply = Reply("none", NO_TOKEN, "")
    /\ calls = EmptyBag

InitOver(ids) == InitOn(ids, MsgsOver(ids))

Init == InitOver(IdsUpTo(MaxDocs))

Tick ==
    /\ ticks < MaxTicks
    /\ \E d \in TickSteps : now' = now + d
    /\ ticks' = ticks + 1
    /\ UNCHANGED <<docs, nextId, uploads, channel, runs, outbox,
                   stamps, reply, calls>>

\* a function with one more point
Put(f, k, v) == [x \in (DOMAIN f) \cup {k} |-> IF x = k THEN v ELSE f[x]]
\* a function without the points in S
Drop(f, S) == [x \in (DOMAIN f) \ S |-> f[x]]


\* ------------------------------------------------------------ the store
\* variant: the query with a third filter, feedbackMessage != ""
PendingFinalized(store, email) ==
    {id \in DOMAIN store : /\ store[id].feedbackEmail = email
                           /\ ~store[id].archivedTimestamp.set
                           /\ store[id].feedbackMessage # ""}

\* where(feedbackEmail == email).where(archivedTimestamp == "").get()
PendingSubmits(store, email) ==
    {id \in DOMAIN store : store[id].feedbackEmail = email /\ ~Archived(store[id])}

\* tokens a client can hold: the ids the store has handed out
KnownTokens == {id \in DocIds : id < nextId}

\* ------------------------------------------------------------- requests
\* a username is an email followed, or not, by "/token"
Username(email, suffix) == [email |-> email, suffix |-> suffix]
UsernameEmpty(u) == u.email = "" /\ ~u.suffix
\* the length of a request body: none, some bytes, more than the limit
DataLen(data) ==
    IF data = "" THEN 0
    ELSE IF data = "big" THEN FEEDBACK_MAX_UPLOAD_SIZE + 1
    ELSE 1

\* an upload request that passes every check, and the ones that differ from
\* it in the one thing a check looks at
UploadRequest(email) ==
    [username |-> Username(email, TRUE), password |-> FEEDBACK_SENDER_AUTHTOKEN,
     filename |-> "f", contentType |-> "application/binary", data |-> "bytes"]
BadUploadRequests(email) ==
    {[UploadRequest(email) EXCEPT !.username = Username("", FALSE)],
     [UploadRequest(email) EXCEPT !.username = Username(email, FALSE)],
     [UploadRequest(email) EXCEPT !.password = ""],
     [UploadRequest(email) EXCEPT !.password = "wrong"],
     [UploadRequest(email) EXCEPT !.filename = ""],
     [UploadRequest(email) EXCEPT !.contentType = "text/plain"],
     [UploadRequest(email) EXCEPT !.data = ""],
     [UploadRequest(email) EXCEPT !.data = "big"]}
UploadRequests == {UploadRequest(email) : email \in UploadEmails}

\* variant: the checks without the one on the size of the body (line 138)
UploadRejectsNoSizeLimit(req) ==
    IF UsernameEmpty(req.username) \/ ~req.username.suffix THEN "BAD AUTH"
    ELSE IF req.password # FEEDBACK_SENDER_AUTHTOKEN THEN "BAD TOKEN"
    ELSE IF req.filename = "" THEN "BAD FILENAME"
    ELSE IF req.contentType # "application/binary" THEN "BAD CONTENT"
    ELSE IF DataLen(req.data) = 0 THEN "BAD DATA"
    ELSE ""

\* lines 112-139 of fmpfeedback_upload: the error code, "" when there is none
UploadRejects(req) ==
    IF UsernameEmpty(req.username) THEN "BAD AUTH"
    ELSE IF ~req.username.suffix THEN "BAD AUTH"
    ELSE IF req.password = "" THEN "BAD TOKEN"
    ELSE IF req.password # FEEDBACK_SENDER_AUTHTOKEN THEN "BAD TOKEN"
    ELSE IF req.filename = "" THEN "BAD FILENAME"
    ELSE IF req.contentType # "application/binary" THEN "BAD CONTENT"
    ELSE IF DataLen(req.data) = 0 THEN "BAD DATA"
    ELSE IF DataLen(req.data) > FEEDBACK_MAX_UPLOAD_SIZE THEN "BAD DATA"
    ELSE ""

CommentRequest(email, subject, body, name) ==
    [username |-> Username(email, TRUE), password |-> FEEDBACK_SENDER_AUTHTOKEN,
     contentType |-> "application/json",
     email |-> email, subject |-> subject, body |-> body, name |-> name]
BadCommentRequests(email) ==
    {[CommentRequest(email, "t1", "t1", "n1") EXCEPT !.contentType = "text/plain"],
     [CommentRequest(email, "t1", "t1", "n1") EXCEPT !.password = ""],
     [CommentRequest(email, "t1", "t1", "n1") EXCEPT !.password = "wrong"],
     [CommentRequest(email, "t1", "t1", "n1") EXCEPT !.email = "",
                                                   !.username = Username("", TRUE)],
     [CommentRequest(email, "t1", "t1", "n1") EXCEPT !.subject = ""],
     [CommentRequest(email, "t1", "t1", "n1") EXCEPT !.body = ""],
     [CommentRequest(email, "t1", "t1", "n1") EXCEPT !.username = Username("", FALSE)],
     [CommentRequest(email, "t1", "t1", "n1") EXCEPT !.username = Username(email, FALSE)],
     [CommentRequest(email, "t1", "t1", "n1") EXCEPT !.username = Username("other", TRUE)]}
CommentRequests ==
    {CommentRequest(email, subject, body, name) :
         email \in CommentEmails, subject \in Texts, body \in Texts, name \in Names}

\* lines 108-137 of fmpfeedback_comment: the error code, "" when there is none
CommentRejects(req) ==
    IF req.contentType # "application/json" THEN "BAD CONTENT"
    ELSE IF req.password = "" THEN "BAD TOKEN"
    ELSE IF req.password # FEEDBACK_SENDER_AUTHTOKEN THEN "BAD TOKEN"
    ELSE IF req.email = "" THEN "BAD DATA"
    ELSE IF req.subject = "" THEN "BAD DATA"
    ELSE IF req.body = "" THEN "BAD DATA"
    ELSE IF UsernameEmpty(req.username) THEN "BAD AUTH"
    ELSE IF req.username # Username(req.email, TRUE) THEN "BAD AUTH"
    ELSE ""

\* ------------------------------------------------------ fmpfeedback_upload
\* variant: the flag is set and the data is kept
UploadDocKeepsData(req, ignored) ==
    [filename |-> req.filename, data |-> req.data, uploadIgnored |-> ignored]

\* lines 145-148 and 162-165: the upload document, with the note in place of
\* the data when it is ignored
UploadDoc(req, ignored) ==
    [filename |-> req.filename,
     data |-> IF ignored THEN "This upload was ignored; upload limit is 10" ELSE req.data,
     uploadIgnored |-> ignored]

\* variant: no test
NeverTooManyUploads(seen) == FALSE

\* variant: the test with > in place of >=
TooManyUploadsStrict(seen) == seen > FEEDBACK_MAX_UPLOADS

\* line 162: the test on the uploads that were read
TooManyUploads(seen) == seen >= FEEDBACK_MAX_UPLOADS

\* variant: the stub without the flag
UploadStubNoFlag(email) ==
    [FEEDBACK_EMPTY_DOC EXCEPT !.feedbackEmail = email,
                               !.feedbackTimestamp = IsoformatAware(now),
                               !.clientIp = "ip"]

\* lines 176-181: the stub feedback document
UploadStub(email) ==
    [FEEDBACK_EMPTY_DOC EXCEPT !.feedbackEmail = email,
                               !.feedbackTimestamp = IsoformatAware(now),
                               !.clientIp = "ip",
                               !.hasUploads = TRUE]

\* One invocation, from its request to its response.
\* faultAt: 0 no store failure, 1 a store call fails before anything is
\* written, 2 (no token) the upload add fails after the stub was added.
\* A subcollection holds at most childBound documents.
UploadCall(req, token, faultAt, childBound) ==
    /\ faultAt = 2 => token = NO_TOKEN
    /\ IF UploadRejects(req) # ""
       THEN /\ faultAt = 0
            /\ reply' = Reply("upload", token, UploadRejects(req))
            /\ UNCHANGED <<docs, nextId, uploads>>
       ELSE IF token # NO_TOKEN
       THEN \* document(token).collection("uploads").get(); add(upload_doc)
            /\ Len(uploads[token]) < childBound
            /\ IF faultAt = 1
               THEN /\ reply' = Reply("upload", token, "FIRESTORE FAIL")
                    /\ UNCHANGED <<docs, nextId, uploads>>
               ELSE /\ uploads' = [uploads EXCEPT ![token] =
                           Append(@, UploadDoc(req, TooManyUploads(Len(@))))]
                    /\ reply' = UploadReply(token, "token")
                    /\ UNCHANGED <<docs, nextId>>
       ELSE /\ IF faultAt = 1
               THEN /\ reply' = Reply("upload", NO_TOKEN, "FIRESTORE FAIL")
                    /\ UNCHANGED <<docs, nextId, uploads>>
               ELSE IF Cardinality(PendingSubmits(docs, req.username.email))
                           >= FEEDBACK_MAX_PENDING_SUBMITS
               THEN /\ faultAt = 0
                    /\ reply' = Reply("upload", NO_TOKEN, "TOO MUCH FEEDBACK")
                    /\ UNCHANGED <<docs, nextId, uploads>>
               ELSE /\ nextId \in DocIds
                    /\ docs' = Put(docs, nextId, UploadStub(req.username.email))
                    /\ nextId' = nextId + 1
                    /\ IF faultAt = 2
                       THEN /\ reply' = Reply("upload", NO_TOKEN, "FIRESTORE FAIL")
                            /\ UNCHANGED uploads
                       ELSE /\ uploads' = [uploads EXCEPT ![nextId] =
                                   Append(@, UploadDoc(req, FALSE))]
                            /\ reply' = UploadReply(nextId, "token")
    /\ UNCHANGED <<now, ticks, channel, runs, outbox, stamps, calls>>

Upload(Faults, Requests, childBound) ==
    \E req \in Requests, token \in KnownTokens \cup {NO_TOKEN}, faultAt \in Faults :
        UploadCall(req, token, faultAt, childBound)

fmpfeedback_upload == Upload(0..2, UploadRequests, MaxChildren)

\* The same invocation with a token, in two steps, for invocations that
\* overlap: lines 156-158, the uploads of the token are read ...
UploadBegin(Requests) ==
    \E req \in Requests, token \in KnownTokens :
        /\ UploadRejects(req) = ""
        /\ BagCardinality(calls) < MaxCalls
        /\ calls' = calls (+) SetToBag({[req |-> req, token |-> token,
                                         seen |-> Len(uploads[token])]})
        /\ UNCHANGED <<now, ticks, docs, nextId, uploads, channel, runs,
                       outbox, stamps, reply>>

\* ... lines 162-165 and 192, the test on what was read, and the add
UploadEnd(childBound) ==
    \E c \in BagToSet(calls) :
        /\ Len(uploads[c.token]) < childBound
        /\ uploads' = [uploads EXCEPT ![c.token] =
                           Append(@, UploadDoc(c.req, TooManyUploads(c.seen)))]
        /\ reply' = UploadReply(c.token, "token")
        /\ calls' = calls (-) SetToBag({c})
        /\ UNCHANGED <<now, ticks, docs, nextId, channel, runs, outbox, stamps>>

\* ----------------------------------------------------- fmpfeedback_comment
\* feedback_doc as built at lines 139-146: the name only when one is given
CommentFields(d, subject, body, name) ==
    [d EXCEPT !.feedbackSubject = subject,
              !.feedbackMessage = body,
              !.feedbackName = IF name # "" THEN name ELSE @]

\* variant: an update that writes the message only
CommentMessageOnly(d, subject, body, name) == [d EXCEPT !.feedbackMessage = body]

\* variant: set(FEEDBACK_EMPTY_DOC | feedback_doc) in place of update()
CommentSet(d, subject, body, name) ==
    CommentFields(FEEDBACK_EMPTY_DOC, subject, body, name)

\* fs_feedback_doc.update(feedback_doc): only the given fields are written
CommentUpdate(d, subject, body, name) == CommentFields(d, subject, body, name)

\* variant: the add without the update of lines 177-181
CommentNewDocWithoutSender(email, subject, body, name) ==
    CommentFields(FEEDBACK_EMPTY_DOC, subject, body, name)

\* fs_feedback_coll.add(FEEDBACK_EMPTY_DOC | feedback_doc)
CommentNewDoc(email, subject, body, name) ==
    [CommentFields(FEEDBACK_EMPTY_DOC, subject, body, name)
        EXCEPT !.feedbackEmail = email,
               !.feedbackTimestamp = IsoformatAware(now),
               !.clientIp = "ip"]

Publish(ch, m) == [ch EXCEPT ![m] = @ + 1]

\* One invocation, from its request to its response.
\* faultAt: 0 none, 1 the store operation fails, 2 the publish fails
CommentCall(req, token, faultAt) ==
    /\ IF CommentRejects(req) # ""
       THEN /\ faultAt = 0
            /\ reply' = Reply("comment", token, CommentRejects(req))
            /\ UNCHANGED <<docs, nextId, channel>>
       ELSE /\ Backlog(channel) < MaxEvents
            /\ LET quota == token = NO_TOKEN /\
                            Cardinality(PendingSubmits(docs, req.email))
                                >= FEEDBACK_MAX_PENDING_SUBMITS
                   \* update() of a missing document raises NotFound, a ClientError
                   stored == faultAt # 1 /\ ~quota /\ (token # NO_TOKEN => Exists(token))
                   id == IF token = NO_TOKEN THEN nextId ELSE token
                   m == [action |-> FEEDBACK_PUBSUB_ACTION_NEWFEEDBACK, docId |-> id]
               IN  /\ quota => faultAt # 2
                   /\ (stored /\ token = NO_TOKEN) => nextId \in DocIds
                   /\ docs' = IF ~stored THEN docs
                              ELSE IF token = NO_TOKEN
                              THEN Put(docs, id, CommentNewDoc(req.email, req.subject,
                                                               req.body, req.name))
                              ELSE [docs EXCEPT ![id] =
                                       CommentUpdate(@, req.subject, req.body, req.name)]
                   /\ nextId' = IF stored /\ token = NO_TOKEN THEN nextId + 1 ELSE nextId
                   /\ channel' = IF stored /\ faultAt # 2 THEN Publish(channel, m) ELSE channel
                   /\ reply' = Reply("comment", token,
                                     IF quota /\ faultAt # 1 THEN "TOO MUCH FEEDBACK"
                                     ELSE IF ~stored THEN "FIRESTORE FAIL"
                                     ELSE IF faultAt = 2 THEN "PUBSUB FAIL"
                                     ELSE "OK")
    /\ UNCHANGED <<now, ticks, uploads, runs, outbox, stamps, calls>>

Comment(Faults, Requests) ==
    \E req \in Requests, token \in KnownTokens \cup {NO_TOKEN}, faultAt \in Faults :
        CommentCall(req, token, faultAt)

fmpfeedback_comment == Comment(0..2, CommentRequests)

\* ---------------------------------------------- the at-least-once channel
\* the channel hands a pending or in-flight message out once more
Redeliver ==
    \E m \in Msgs :
        /\ channel[m] > 0 \/ \E r \in BagToSet(runs) : r.msg = m
        /\ Backlog(channel) < MaxEvents
        /\ channel' = Publish(channel, m)
        /\ UNCHANGED <<now, ticks, docs, nextId, uploads, runs, outbox, stamps, reply, calls>>

\* another publisher of the topic
PublishForeign ==
    \E m \in ForeignMsgs :
        /\ Backlog(channel) < MaxEvents
        /\ channel' = Publish(channel, m)
        /\ UNCHANGED <<now, ticks, docs, nextId, uploads, runs, outbox, stamps, reply, calls>>

\* a publisher of the topic sends a message that is not for the handler
PublishUnknown ==
    \E m \in Msgs :
        /\ m.action \in OtherActions \/ m.docId = NO_TOKEN
        /\ Backlog(channel) < MaxEvents
        /\ channel' = Publish(channel, m)
        /\ UNCHANGED <<now, ticks, docs, nextId, uploads, runs, outbox, stamps, reply, calls>>

\* ---------------------------------------------- fmpfeedback_mailgun_pubsub
\* variant: the test on the action left out
RecognizedAnyAction(m) == m.docId # NO_TOKEN

\* variant: only the action of fmpfeedback_comment is taken
RecognizedSubmittedOnly(m) ==
    m.action = FEEDBACK_PUBSUB_ACTION_NEWFEEDBACK /\ m.docId # NO_TOKEN

Recognized(m) ==
    /\ m.action \in {FEEDBACK_PUBSUB_ACTION_NEWFEEDBACK,
                     FEEDBACK_PUBSUB_ACTION_CARETAKER_RETRY}
    /\ m.docId # NO_TOKEN

\* what document(id).get() of a missing document leads to: the NotFound the
\* handler catches (the message is acknowledged), or a snapshot without data,
\* whose to_dict() is None, so that line 233 raises (the message is nacked)
MissingDocOutcomes == {"NotFound", "TypeError"}

\* lines 134-162: what the handler does with the message m when the get()
\* raises (getFails) and when a missing document has the outcome missing:
\* whether the invocation ends normally (the message is acknowledged),
\* whether it goes on to _fmpfeedback_mailgun_send, and what it logs
PubsubOutcome(m, getFails, missing) ==
    IF ~Recognized(m)
    THEN [acked |-> TRUE, sends |-> FALSE, result |-> "ignored"]
    ELSE IF getFails
    THEN [acked |-> TRUE, sends |-> FALSE, result |-> "abandoned"]
    ELSE IF ~Exists(m.docId)
    THEN [acked |-> missing = "NotFound", sends |-> FALSE,
          result |-> IF missing = "NotFound" THEN "not found" ELSE "raised"]
    ELSE [acked |-> TRUE, sends |-> TRUE, result |-> ""]

\* lines 117-160 and 226: the message is decoded and the document is read
\* getFails: the get() raises; at most limit invocations run at a time
MailgunPubsub(GetFaults, limit) ==
    \E m \in Msgs, getFails \in GetFaults, missing \in MissingDocOutcomes :
        /\ channel[m] > 0
        /\ BagCardinality(runs) < limit
        /\ (getFails \/ ~Recognized(m) \/ Exists(m.docId)) => missing = "NotFound"
        /\ ~Recognized(m) => ~getFails
        /\ LET o == PubsubOutcome(m, getFails, missing)
           IN  /\ channel' = IF o.acked THEN [channel EXCEPT ![m] = @ - 1] ELSE channel
               /\ runs' = IF o.sends
                          THEN runs (+) SetToBag({[msg |-> m, doc |-> docs[m.docId]]})
                          ELSE runs
               /\ reply' = IF o.sends THEN reply ELSE Reply("mailgun", m.docId, o.result)
        /\ UNCHANGED <<now, ticks, docs, nextId, uploads, outbox, stamps, calls>>

fmpfeedback_mailgun_pubsub == MailgunPubsub(BOOLEAN, MaxRuns)

\* ----------------------------------------------- _fmpfeedback_mailgun_send
\* lines 237-239: a field that is not set
FieldNotSet(d) ==
    d.feedbackEmail = "" \/ d.feedbackSubject = "" \/ d.feedbackMessage = ""

\* lines 237-239: _abort_return(...) is called and its value dropped, so no
\* field ends the function
FieldCheckReturns(d) == FALSE

\* variant: the guard of lines 233-235 left out
NeverAlreadyArchived(d) == FALSE

\* lines 233-235: the guard on the snapshot that was read
AlreadyArchived(d) == Archived(d)

\* lines 241-260: one attachment per upload document of the subcollection
Attachments(d, children, fetchFailed) ==
    IF d.hasUploads /\ ~fetchFailed THEN children ELSE <<>>

MessageData(d, files) ==
    [subject |-> d.feedbackSubject, text |-> d.feedbackMessage,
     from |-> <<d.feedbackName, d.feedbackEmail>>, files |-> files]

\* the id Mailgun gives the message it accepts
NextMessageId == 1 + Cardinality({<<id, k>> \in DocIds \X (1..MaxEmails) :
                                     k <= Len(outbox[id])})

\* variant: the update without the message id
StampedWithoutId(d, messageId) == [d EXCEPT !.archivedTimestamp = IsoformatNaive(now)]

\* lines 300-303: the snapshot's dictionary with the two fields set
Stamped(d, messageId) ==
    [d EXCEPT !.archivedTimestamp = IsoformatNaive(now), !.mailgunMessageId = messageId]

\* variant: the update in a finally clause
StampAlways(accepted) == TRUE
\* variant: the update in the except clauses
StampOnFailure(accepted) == ~accepted

\* lines 279-293: whether the else branch of the try runs
StampAfter(accepted) == accepted

\* lines 226-308 for the invocation r, which read r.doc for the message
\* r.msg. faultAt: 0 none, 1 the uploads get() fails, 2 the Mailgun request
\* fails, 3 the update() of the document fails
SendOutcome(r, faultAt) ==
    LET d == r.doc
        id == r.msg.docId
        skip == AlreadyArchived(d) \/ (FieldNotSet(d) /\ FieldCheckReturns(d))
        files == Attachments(d, uploads[id], faultAt = 1)
        accepted == ~skip /\ faultAt # 2
        stamping == ~skip /\ StampAfter(accepted)
        \* update() of a missing document raises NotFound; nothing
        \* around line 306 catches it
        raised == stamping /\ (faultAt = 3 \/ ~Exists(id))
    IN  [possible |-> /\ faultAt = 1 => d.hasUploads
                      /\ skip => faultAt = 0
                      /\ accepted => Len(outbox[id]) < MaxEmails,
         outbox |-> IF accepted
                    THEN [outbox EXCEPT ![id] = Append(@, MessageData(d, files))]
                    ELSE outbox,
         docs |-> IF stamping /\ ~raised
                  THEN [docs EXCEPT ![id] = Stamped(d, NextMessageId)]
                  ELSE docs,
         stamps |-> IF stamping /\ ~raised
                    THEN [stamps EXCEPT ![id] = @ + 1]
                    ELSE stamps,
         raised |-> raised,
         result |-> IF raised THEN "raised"
                    ELSE IF AlreadyArchived(d) THEN "already archived"
                    ELSE IF skip THEN "not set"
                    ELSE IF accepted THEN "sent"
                    ELSE "not sent"]

MailgunSend(Faults) ==
    \E r \in BagToSet(runs), faultAt \in Faults :
        /\ LET o == SendOutcome(r, faultAt)
           IN  /\ o.possible
               /\ outbox' = o.outbox
               /\ docs' = o.docs
               /\ stamps' = o.stamps
               \* an exception nacks the message: it is delivered again
               /\ channel' = IF o.raised THEN Publish(channel, r.msg) ELSE channel
               /\ reply' = Reply("mailgun", r.msg.docId, o.result)
        /\ runs' = runs (-) SetToBag({r})
        /\ UNCHANGED <<now, ticks, nextId, uploads, calls>>

fmpfeedback_mailgun_send == MailgunSend(0..3)

\* --------------------------------------------------- fmpfeedback_caretaker
\* lines 88-90: the three cutoffs, naive datetimes
republish_prior_to_date == now - CARETAKER_REPUBLISH_AFTER * MINUTES_PER_HOUR
delete_prior_to_date == now - CARETAKER_KEEP_HISTORY * HOURS_PER_DAY * MINUTES_PER_HOUR
five_min_ago == now - FIVE_MINUTES

\* One scan of a query's stream: the documents are visited in some order
\* until all were visited (done), or the visit of a document of Bad raises,
\* or the store fails; seen are the documents visited before that.
Visits(Q, Bad, storeFails) ==
    IF storeFails \/ Q \cap Bad # {}
    THEN {[seen |-> P, done |-> FALSE] : P \in SUBSET (Q \ Bad)}
    ELSE {[seen |-> Q, done |-> TRUE]}

\* lines 98-106: where(archivedTimestamp != "")
ExpireQuery(store) == {id \in DOMAIN store : store[id].archivedTimestamp # EmptyStr}
ExpireRaises(store) ==
    {id \in ExpireQuery(store) : CompareRaises(store[id].archivedTimestamp)}
\* variant: the republish cutoff in place of the delete cutoff
ExpiredAfterRepublishAge(store, seen) ==
    {id \in seen : AtOrBefore(store[id].archivedTimestamp, republish_prior_to_date)}
Expired(store, seen) ==
    {id \in seen : AtOrBefore(store[id].archivedTimestamp, delete_prior_to_date)}

\* lines 112-120: where(feedbackMessage == "")
ReapQuery(store) == {id \in DOMAIN store : store[id].feedbackMessage = ""}
ReapRaises(store) ==
    {id \in ReapQuery(store) : CompareRaises(store[id].feedbackTimestamp)}
Reaped(store, seen) ==
    {id \in seen : AtOrBefore(store[id].feedbackTimestamp, five_min_ago)}

\* lines 125-133: where(archivedTimestamp == "")
StaleQuery(store) == {id \in DOMAIN store : store[id].archivedTimestamp = EmptyStr}
StaleRaises(store) ==
    {id \in StaleQuery(store) : CompareRaises(store[id].feedbackTimestamp)}
Stale(store, seen) ==
    {id \in seen : AtOrBefore(store[id].feedbackTimestamp, republish_prior_to_date)}

\* how a sweep ends: the store it leaves, the response, and what it did
SweepEnd(store, result, expired, reaped, retried, scans, faulted) ==
    [store |-> store, result |-> result,
     sweep |-> [at |-> now, scans |-> scans, faulted |-> faulted,
                expired |-> expired, reaped |-> reaped, stale |-> retried]]

\* lines 146-176: one message per stale id, until a publish fails
PublishEnds(store, expired, reaped, stale, publishFails) ==
    IF publishFails
    THEN {SweepEnd(store, "PUBSUB FAIL", expired, reaped, P, 3, TRUE) :
              P \in (SUBSET stale) \ {stale}}
    ELSE {SweepEnd(store, "OK", expired, reaped, stale, 3, FALSE)}

\* variant: the except clauses log and the function returns "OK"
AbortedQuietly(store, expired, reaped, k, faultAt) ==
    IF faultAt \in {0, k}
    THEN {SweepEnd(store, "OK", expired, reaped, {}, k - 1, faultAt = k)}
    ELSE {}

\* lines 135-142: an exception in scan k ends the sweep; what the scans
\* deleted before it stays deleted
Aborted(store, expired, reaped, k, faultAt) ==
    IF faultAt \in {0, k}
    THEN {SweepEnd(store, "FIRESTORE FAIL", expired, reaped, {}, k - 1, faultAt = k)}
    ELSE {}

\* variant: a third scan that takes every document, without the query
\* filter and without the age test
StaleEndsUnfiltered(store, expired, reaped, faultAt) ==
    PublishEnds(store, expired, reaped, DOMAIN store, faultAt = 4)

StaleEnds(store, expired, reaped, faultAt) ==
    UNION {IF ~v.done
           THEN Aborted(store, expired, reaped, 3, faultAt)
           ELSE PublishEnds(store, expired, reaped, Stale(store, v.seen), faultAt = 4) :
           v \in Visits(StaleQuery(store), StaleRaises(store), faultAt = 3)}

ReapEnds(store, expired, faultAt) ==
    UNION {IF ~v.done
           THEN Aborted(Drop(store, Reaped(store, v.seen)), expired,
                        Reaped(store, v.seen), 2, faultAt)
           ELSE StaleEnds(Drop(store, Reaped(store, v.seen)), expired,
                          Reaped(store, v.seen), faultAt) :
           v \in Visits(ReapQuery(store), ReapRaises(store), faultAt = 2)}

\* a sweep in which the failure faultAt happens (0: none happens): 1, 2, 3
\* the store fails in that scan, 4 a publish fails
SweepEnds(faultAt) ==
    UNION {IF ~v.done
           THEN Aborted(Drop(docs, Expired(docs, v.seen)),
                        Expired(docs, v.seen), {}, 1, faultAt)
           ELSE ReapEnds(Drop(docs, Expired(docs, v.seen)), Expired(docs, v.seen), faultAt) :
           v \in Visits(ExpireQuery(docs), ExpireRaises(docs), faultAt = 1)}

Caretaker(Faults) ==
    \E faultAt \in Faults :
        /\ \E end \in SweepEnds(faultAt) :
            /\ Backlog(channel) + Cardinality(end.sweep.stale) <= MaxEvents
            /\ docs' = end.store
            /\ channel' = [m \in Msgs |->
                   IF m.action = FEEDBACK_PUBSUB_ACTION_CARETAKER_RETRY /\
                      m.docId \in end.sweep.stale
                   THEN channel[m] + 1 ELSE channel[m]]
            /\ reply' = [Reply("caretaker", NO_TOKEN, end.result) EXCEPT !.sweep = end.sweep]
        /\ UNCHANGED <<now, ticks, nextId, uploads, runs, outbox, stamps, calls>>

fmpfeedback_caretaker == Caretaker(0..4)

Next ==
    \/ Tick
    \/ fmpfeedback_upload
    \/ fmpfeedback_comment
    \/ Redeliver
    \/ PublishForeign
    \/ fmpfeedback_mailgun_pubsub
    \/ fmpfeedback_mailgun_send
    \/ fmpfeedback_caretaker
Spec == Init /\ [][Next]_vars

\* ---------------------------------------------------- sequential delivery
\* the topic hands a message to the function only when no invocation of it
\* is running: deliveries, first or repeated, run one after the other
SeqNext ==
    \/ Tick
    \/ fmpfeedback_upload
    \/ fmpfeedback_comment
    \/ Redeliver
    \/ PublishForeign
    \/ MailgunPubsub(BOOLEAN, 1)
    \/ fmpfeedback_mailgun_send
    \/ fmpfeedback_caretaker
SeqSpec == Init /\ [][SeqNext]_vars

\* ------------------------------------------- collaborators that recover
\* The store never fails; a publish of fmpfeedback_comment, and a Mailgun
\* request, may fail, but a Mailgun request that is made again and again
\* succeeds; messages on the topic are delivered, invocations finish, time
\* passes and the scheduler keeps invoking fmpfeedback_caretaker.
FairNext ==
    \/ Tick
    \/ Comment({0, 2}, CommentRequests)
    \/ MailgunPubsub({FALSE}, MaxRuns)
    \/ MailgunSend({0, 2})
    \/ Caretaker({0})
FairSpec ==
    /\ Init /\ [][FairNext]_vars
    /\ WF_vars(Tick)
    /\ WF_vars(MailgunPubsub({FALSE}, MaxRuns))
    /\ SF_vars(MailgunSend({0}))
    /\ WF_vars(Caretaker({0}))

\* ----------------------------------------------- many uploads of one token
\* One document and up to MaxCapChildren uploads of it; one delivery at a
\* time, no repeated delivery.
CapNext ==
    \/ Tick
    \/ Upload(0..2, UploadRequests, MaxCapChildren)
    \/ Comment(0..2, CommentRequests)
    \/ MailgunPubsub({FALSE}, 1)
    \/ MailgunSend({0})
    \/ Caretaker({0})
CapSpec == Init /\ [][CapNext]_vars

\* ------------------------------------------- requests that fail a check
\* The two HTTP functions called with the requests that pass every check
\* and with the ones that fail one.
AllUploadRequests == UploadRequests \cup BadUploadRequests("e1")
AllCommentRequests == CommentRequests \cup BadCommentRequests("e1")
RejectNext ==
    \/ Upload(0..2, AllUploadRequests, MaxChildren)
    \/ Comment(0..2, AllCommentRequests)
    \/ MailgunPubsub({FALSE}, 1)
    \/ MailgunSend({0})
RejectSpec == Init /\ [][RejectNext]_vars

\* ------------------------------------------------- many documents of a sender
\* Up to MaxQuotaDocs documents of two senders, each made by a call without
\* a token, with deliveries that archive them.
QuotaEmails == {"e1", "e2"}
QuotaUploadRequests == {UploadRequest(email) : email \in QuotaEmails}
QuotaInit == InitOver(IdsUpTo(MaxQuotaDocs))
QuotaNext ==
    \/ \E req \in QuotaUploadRequests, faultAt \in 0..1 :
           UploadCall(req, NO_TOKEN, faultAt, MaxChildren)
    \/ \E req \in CommentRequests, faultAt \in 0..2 :
           CommentCall(req, NO_TOKEN, faultAt)
    \/ MailgunPubsub({FALSE}, 1)
    \/ MailgunSend({0})
QuotaSpec == QuotaInit /\ [][QuotaNext]_vars

\* ------------------------------------------------ upload calls that overlap
\* One document; the upload calls that carry its token run in two steps, up
\* to MaxCalls of them between their read and their add.
RaceNext ==
    \/ \E req \in UploadRequests : UploadCall(req, NO_TOKEN, 0, MaxCapChildren)
    \/ UploadBegin(UploadRequests)
    \/ UploadEnd(MaxCapChildren)
RaceSpec == Init /\ [][RaceNext]_vars

\* ------------------------------------------- create calls that overlap
\* A call without a token in two steps, for invocations that overlap: the
\* query for the sender's unarchived documents (upload 167-168, comment
\* 170-171) ...
CreateRequests == UploadRequests \cup CommentRequests
IsUploadRequest(req) == "filename" \in DOMAIN req

CreateBegin(Requests) ==
    \E req \in Requests :
        /\ IF IsUploadRequest(req) THEN UploadRejects(req) = ""
                                    ELSE CommentRejects(req) = ""
        /\ BagCardinality(calls) < MaxCalls
        /\ calls' = calls (+) SetToBag({[req |-> req, token |-> NO_TOKEN,
                 seen |-> Cardinality(PendingSubmits(docs, req.username.email))]})
        /\ UNCHANGED <<now, ticks, docs, nextId, uploads, channel, runs,
                       outbox, stamps, reply>>

\* variant: a test that lets one more document through
TooMuchFeedbackStrict(seen) == seen > FEEDBACK_MAX_PENDING_SUBMITS

\* upload 170, comment 174: the test on what the query returned
TooMuchFeedback(seen) == seen >= FEEDBACK_MAX_PENDING_SUBMITS

\* ... the test, and then the add of the document (upload 184 and 192,
\* comment 184 and the publish of 207)
CreateEnd ==
    \E c \in BagToSet(calls) :
        /\ c.token = NO_TOKEN
        /\ calls' = calls (-) SetToBag({c})
        /\ LET op == IF IsUploadRequest(c.req) THEN "upload" ELSE "comment"
               email == c.req.username.email
           IN  IF TooMuchFeedback(c.seen)
               THEN /\ reply' = Reply(op, NO_TOKEN, "TOO MUCH FEEDBACK")
                    /\ UNCHANGED <<docs, nextId, uploads, channel>>
               ELSE /\ nextId \in DocIds
                    /\ nextId' = nextId + 1
                    /\ IF op = "upload"
                       THEN /\ docs' = Put(docs, nextId, UploadStub(email))
                            /\ uploads' = [uploads EXCEPT ![nextId] =
                                               Append(@, UploadDoc(c.req, FALSE))]
                            /\ reply' = UploadReply(nextId, "token")
                            /\ UNCHANGED channel
                       ELSE /\ Backlog(channel) < MaxEvents
                            /\ docs' = Put(docs, nextId,
                                   CommentNewDoc(c.req.email, c.req.subject,
                                                 c.req.body, c.req.name))
                            /\ channel' = Publish(channel,
                                   [action |-> FEEDBACK_PUBSUB_ACTION_NEWFEEDBACK,
                                    docId |-> nextId])
                            /\ reply' = Reply("comment", NO_TOKEN, "OK")
                            /\ UNCHANGED uploads
        /\ UNCHANGED <<now, ticks, runs, outbox, stamps>>

\* Up to MaxQuotaDocs documents of one sender, made by calls without a
\* token of which up to MaxCalls are between their query and their add,
\* with deliveries that archive them.
CreateRaceNext ==
    \/ CreateBegin(CreateRequests)
    \/ CreateEnd
    \/ MailgunPubsub({FALSE}, 1)
    \/ MailgunSend({0})
CreateRaceSpec == QuotaInit /\ [][CreateRaceNext]_vars

\* ------------------------------------------------------- sweeps that fail
\* The sweep with each of its failures, over the records that uploads,
\* comments and single deliveries without failures make.
SweepNext ==
    \/ Tick
    \/ Upload({0}, UploadRequests, MaxChildren)
    \/ Comment({0, 2}, CommentRequests)
    \/ MailgunPubsub({FALSE}, 1)
    \/ MailgunSend({0, 2})
    \/ Caretaker(0..4)
SweepSpec == Init /\ [][SweepNext]_vars

\* ------------------------------------------- deliveries without the sweep
\* Uploads and comments that succeed, events of both actions, deliveries
\* that overlap and are repeated, with every failure of the delivery; no
\* time passes and no sweep runs.
DeliveryNext ==
    \/ Upload({0}, UploadRequests, MaxChildren)
    \/ Comment({0}, CommentRequests)
    \/ Redeliver
    \/ PublishForeign
    \/ MailgunPubsub(BOOLEAN, MaxRuns)
    \/ MailgunSend(0..3)
DeliverySpec == Init /\ [][DeliveryNext]_vars

\* -------------------------------------------- messages of other publishers
\* The topic also carries messages without an action, with an unknown
\* action, and without a document id.
UnknownInit == InitOn(IdsUpTo(MaxDocs), AnyMsgsOver(IdsUpTo(MaxDocs)))
UnknownNext ==
    \/ Upload({0}, UploadRequests, MaxChildren)
    \/ Comment({0}, CommentRequests)
    \/ PublishUnknown
    \/ MailgunPubsub(BOOLEAN, MaxRuns)
    \/ MailgunSend(0..3)
UnknownSpec == UnknownInit /\ [][UnknownNext]_vars

\* ------------------------------------------------ a second comment request
\* Comment calls that carry another email, other texts and another name
\* than the first, with or without the token of a document, while time
\* passes, deliveries run and the caretaker sweeps.
SecondCommentRequests == {CommentRequest("e2", "t2", "t2", "n2")}
RewriteNext ==
    \/ Tick
    \/ Upload({0}, UploadRequests, MaxChildren)
    \/ Comment({0}, CommentRequests \cup SecondCommentRequests)
    \/ MailgunPubsub({FALSE}, MaxRuns)
    \/ MailgunSend({0})
    \/ Caretaker({0})
RewriteSpec == Init /\ [][RewriteNext]_vars

\* ================================================================ claims
\* a record a comment call has completed
Finalized(d) == d.feedbackMessage # ""
\* a step in which an invocation of the delivery function ends
RunEnds == BagCardinality(runs') < BagCardinality(runs)

\* C1, as stated: when deliveries of a record run concurrently, at most one
\* of them performs the side effect.  Every stamp is written by a run right
\* after Mailgun accepted that run's email, so this is: no record is stamped
\* more than once.
C1_StampedAtMostOnce == \A id \in DocIds : stamps[id] <= 1

\* C1, amended: an email is sent, and a record stamped, only by a run that
\* read the record while its archivedTimestamp was still empty; a run that
\* reads it after a stamp does neither.  Runs that all read before the first
\* stamp each send and each stamp.
C1_OnlyUnarchivedReadsAct ==
    [][\A id \in DocIds :
          (outbox'[id] # outbox[id] \/ stamps'[id] # stamps[id]) =>
              \E r \in BagToSet(runs) :
                  /\ r.msg.docId = id
                  /\ ~Archived(r.doc)
                  /\ runs' = runs (-) SetToBag({r})]_vars

\* two runs of one record have both sent and both stamped
C1_BothRunsActed == \E id \in DocIds : stamps[id] = 2 /\ Len(outbox[id]) = 2

\* C2: when the deliveries of a record run one after the other, they send
\* at most one email and stamp the record at most once altogether.
C2_SequentialAtMostOnce ==
    \A id \in DocIds : Len(outbox[id]) <= 1 /\ stamps[id] <= 1

\* C3: once the archivedTimestamp of a record is set, no step empties it
\* for as long as the record exists.
C3_ArchivedStaysArchived ==
    [][\A id \in DOMAIN docs :
          (Archived(docs[id]) /\ id \in DOMAIN docs') => Archived(docs'[id])]_vars

\* a comment call with a token has updated a record that was archived
C3_CommentOnArchived ==
    /\ reply.op = "comment" /\ reply.result = "OK"
    /\ \E id \in DOMAIN docs : Archived(docs[id])

\* C4: a record whose archivedTimestamp is set had an email accepted by
\* Mailgun, and no more stamps were written for it than emails accepted;
\* the message id on it is the id of an accepted email.
C4_ArchivedImpliesAccepted ==
    \A id \in DocIds :
        /\ stamps[id] <= Len(outbox[id])
        /\ (Exists(id) /\ Archived(docs[id])) =>
               /\ Len(outbox[id]) >= 1
               /\ docs[id].mailgunMessageId \in 1..(NextMessageId - 1)

\* a record has been stamped, once, after its one accepted email
C4_ArchivedRecord ==
    \E id \in DOMAIN docs :
        Archived(docs[id]) /\ stamps[id] = 1 /\ Len(outbox[id]) = 1

\* the latest invocation was a sweep, and nothing has happened since: the
\* store and the clock are as the sweep left them
JustSwept == reply.op = "caretaker" /\ reply.sweep.at = now
\* a finalized record that is unarchived and older than the republish age
StaleFinalized(id) ==
    /\ Exists(id)
    /\ Finalized(docs[id])
    /\ ~Archived(docs[id])
    /\ docs[id].feedbackTimestamp.t < republish_prior_to_date
\* a draft older than five minutes
OrphanDraft(id) ==
    /\ Exists(id)
    /\ ~Finalized(docs[id])
    /\ ~Archived(docs[id])
    /\ docs[id].feedbackTimestamp.t < five_min_ago

\* C5: with a store that does not fail, a transport that succeeds when
\* tried again and again and a scheduler that keeps invoking the sweep, a
\* finalized record that has passed the republish age unarchived is
\* eventually archived.
C5_StaleFinalizedEventuallyArchived ==
    \A id \in IdsUpTo(MaxDocs) :
        StaleFinalized(id) ~> (Exists(id) /\ Archived(docs[id]))

\* C6: a sweep in which no collaborator failed has published a retry event
\* for every finalized, unarchived record older than the republish age.
C6_StaleRecordsRetried ==
    (JustSwept /\ ~reply.sweep.faulted) =>
        \A id \in DocIds : StaleFinalized(id) => id \in reply.sweep.stale

\* C7: a sweep in which no collaborator failed leaves no draft older than
\* five minutes in the store.
C7_OrphanDraftsDeleted ==
    (JustSwept /\ ~reply.sweep.faulted) => \A id \in DocIds : ~OrphanDraft(id)

\* after a sweep whose first scan completed, no archived record whose
\* archivedTimestamp is more than CARETAKER_KEEP_HISTORY days old is left
C8_NoOldArchiveLeft ==
    (JustSwept /\ reply.sweep.scans >= 1) =>
        \A id \in DOMAIN docs :
            Archived(docs[id]) => ~(docs[id].archivedTimestamp.t < delete_prior_to_date)
\* what a sweep deletes, other than in its second scan, is archived and its
\* archivedTimestamp is at least CARETAKER_KEEP_HISTORY days old
C8_OnlyOldArchivesDeleted ==
    \A id \in DOMAIN docs :
        (reply'.op = "caretaker" /\ id \notin DOMAIN docs' /\ id \notin reply'.sweep.reaped)
            => /\ Archived(docs[id])
               /\ docs[id].archivedTimestamp.t <= delete_prior_to_date
               /\ id \in reply'.sweep.expired

\* C8: expiration deletes every archived record whose archivedTimestamp is
\* more than CARETAKER_KEEP_HISTORY days old, and deletes nothing else:
\* younger archived records and unarchived records are retained by it.
C8_Expiration == [](C8_NoOldArchiveLeft) /\ [][C8_OnlyOldArchivesDeleted]_vars

\* a sweep has just deleted a record
C8_SweepExpired == JustSwept /\ reply.sweep.expired # {}

\* C9: a run whose Mailgun request fails changes no document: the
\* archivedTimestamp and the mailgunMessageId of the record stay as they were.
C9_FailureWritesNothing ==
    [][(RunEnds /\ reply'.op = "mailgun" /\ reply'.result = "not sent") =>
          (docs' = docs /\ stamps' = stamps /\ outbox' = outbox)]_vars

\* a Mailgun request for a finalized record has failed, the record is as it was
C9_FailedSend ==
    /\ reply.op = "mailgun" /\ reply.result = "not sent"
    /\ \E id \in DOMAIN docs :
           Finalized(docs[id]) /\ ~Archived(docs[id]) /\ stamps[id] = 0

\* C10: no email is sent for a record whose sender email, subject or message
\* is empty, and such a record is not stamped.
C10_UnsetFieldsDropTheEvent ==
    /\ \A id \in DocIds : \A k \in 1..Len(outbox[id]) :
           /\ outbox[id][k].subject # ""
           /\ outbox[id][k].text # ""
           /\ outbox[id][k].from[2] # ""
    /\ \A id \in DOMAIN docs : FieldNotSet(docs[id]) => ~Archived(docs[id])

\* ---------------------------------------------------------------- C11
\* the tokens and the store faults a call may be made with
AnyToken == DocIds \cup {NO_TOKEN}
StoreFaults == 0..2

C11_IgnoredFromTheCapOn ==
    \A id \in DocIds : \A k \in 1..Len(uploads[id]) :
        uploads[id][k].uploadIgnored <=> k > FEEDBACK_MAX_UPLOADS

C11_OneChildPerUpload ==
    \A req \in UploadRequests, token \in AnyToken, faultAt \in StoreFaults :
        (UploadCall(req, token, faultAt, MaxCapChildren) /\ reply'.result = "token")
        => /\ reply'.token \in DocIds
           /\ token = NO_TOKEN => Len(uploads[reply'.token]) = 0
           /\ token # NO_TOKEN => reply'.token = token
           /\ \A id \in DocIds :
                  Len(uploads'[id]) = Len(uploads[id]) + (IF id = reply'.token THEN 1 ELSE 0)

C11_CommentFinalizes ==
    \A req \in CommentRequests, token \in DocIds, faultAt \in StoreFaults :
        (CommentCall(req, token, faultAt) /\ reply'.result = "OK")
        => /\ uploads' = uploads
           /\ DOMAIN docs' = DOMAIN docs
           /\ docs'[token].feedbackSubject # ""
           /\ docs'[token].feedbackMessage # ""

\* C11: with calls that run one after the other, every successful upload
\* call appends exactly one child to the record of its token (the new
\* record when it has none), the k-th child of a record is marked ignored
\* exactly when MAX_UPLOADS children existed before it, and a successful
\* comment call with the token leaves the children as they are and the one
\* record with a non-empty subject and message.
C11_UploadsThenComment ==
    /\ []C11_IgnoredFromTheCapOn
    /\ [][C11_OneChildPerUpload /\ C11_CommentFinalizes]_vars

\* a comment succeeded on a record with more than MAX_UPLOADS children
C11_CommentedPastTheCap ==
    /\ reply.op = "comment" /\ reply.result = "OK"
    /\ \E id \in DOMAIN docs :
           /\ Len(uploads[id]) > FEEDBACK_MAX_UPLOADS
           /\ uploads[id][Len(uploads[id])].uploadIgnored
           /\ docs[id].feedbackSubject # "" /\ docs[id].feedbackMessage # ""

\* ---------------------------------------------------------------- C12
\* the records of a sender with archivedAt empty, drafts included
OpenRecords(email) ==
    {id \in DOMAIN docs : docs[id].feedbackEmail = email /\ docs[id].archivedTimestamp = EmptyStr}
OverQuota(email) == Cardinality(OpenRecords(email)) >= FEEDBACK_MAX_PENDING_SUBMITS
NothingStoredOrPublished == docs' = docs /\ uploads' = uploads /\ channel' = channel
OneRecordCreated ==
    /\ nextId \notin DOMAIN docs
    /\ DOMAIN docs' = DOMAIN docs \cup {nextId}
    /\ \A id \in DOMAIN docs : docs'[id] = docs[id]

C12_UploadQuota ==
    \A req \in QuotaUploadRequests :
        UploadCall(req, NO_TOKEN, 0, MaxChildren)
        => IF OverQuota(req.username.email)
           THEN reply'.result = "TOO MUCH FEEDBACK" /\ NothingStoredOrPublished
           ELSE reply'.result = "token" /\ OneRecordCreated

C12_CommentQuota ==
    \A req \in CommentRequests :
        CommentCall(req, NO_TOKEN, 0)
        => IF OverQuota(req.email)
           THEN reply'.result = "TOO MUCH FEEDBACK" /\ NothingStoredOrPublished
           ELSE reply'.result = "OK" /\ OneRecordCreated

\* C12: a call without a token, upload or comment, that meets no store or
\* publish failure: when the sender has FEEDBACK_MAX_PENDING_SUBMITS or more
\* records with archivedAt empty, drafts included, it answers with the
\* quota error and leaves records, uploads and topic as they were;
\* otherwise it succeeds and creates exactly one record.
C12_OpenRecordQuota == [][C12_UploadQuota /\ C12_CommentQuota]_vars

\* a call was refused for a sender whose five open records include a draft,
\* while the other sender has a record too
C12_RefusedAtFive ==
    /\ reply.result = "TOO MUCH FEEDBACK"
    /\ Cardinality(OpenRecords("e1")) = FEEDBACK_MAX_PENDING_SUBMITS
    /\ \E id \in OpenRecords("e1") : docs[id].feedbackMessage = ""
    /\ OpenRecords("e2") # {}

\* ---------------------------------------------------------------- C13
\* C13: an upload call with the token of a record that has
\* FEEDBACK_MAX_UPLOADS or more children, and no store failure, succeeds,
\* answers with the same token and appends exactly one child, marked
\* ignored, whose data is the placeholder text and not the uploaded bytes.
C13_UploadPastTheCap ==
    [][\A req \in UploadRequests, token \in DocIds :
         (UploadCall(req, token, 0, MaxCapChildren)
              /\ Len(uploads[token]) >= FEEDBACK_MAX_UPLOADS)
         => /\ reply'.result = "token" /\ reply'.token = token
            /\ uploads' = [uploads EXCEPT ![token] =
                   Append(@, [filename |-> req.filename,
                              data |-> "This upload was ignored; upload limit is 10",
                              uploadIgnored |-> TRUE])]
            /\ req.data # "This upload was ignored; upload limit is 10"
            /\ docs' = docs]_vars

\* the latest call was an upload that made the last child MaxCapChildren
\* allows, two past the cap
C13_TwoPastTheCap ==
    /\ reply.op = "upload" /\ reply.result = "token"
    /\ Len(uploads[reply.token]) = FEEDBACK_MAX_UPLOADS + 2
    /\ uploads[reply.token][FEEDBACK_MAX_UPLOADS + 2].uploadIgnored

\* ---------------------------------------------------------------- C14
\* the children of a record that are not marked ignored
NonIgnored(id) == {k \in 1..Len(uploads[id]) : ~uploads[id][k].uploadIgnored}

\* C14 as stated: in every reachable state, upload calls with the same
\* token overlapping or not, every record has at most FEEDBACK_MAX_UPLOADS
\* children that are not marked ignored.
C14_AtMostMaxUploads ==
    \A id \in DocIds : Cardinality(NonIgnored(id)) <= FEEDBACK_MAX_UPLOADS

\* C14, amended: with at most MaxCalls upload calls of one token between
\* their read and their add at a time, every record has at most
\* FEEDBACK_MAX_UPLOADS + MaxCalls - 1 children that are not marked ignored,
\* and a call adds a child that is not marked ignored only when it read
\* fewer than FEEDBACK_MAX_UPLOADS children.
C14_CapUpToOverlap ==
    /\ [](\A id \in DocIds :
             Cardinality(NonIgnored(id)) <= FEEDBACK_MAX_UPLOADS + MaxCalls - 1)
    /\ [][\A c \in BagToSet(calls) :
             (calls' = calls (-) SetToBag({c}) /\ uploads' # uploads)
             => (uploads'[c.token][Len(uploads'[c.token])].uploadIgnored
                     <=> c.seen >= FEEDBACK_MAX_UPLOADS)]_vars

\* eleven children of one record, none of them marked ignored
C14_ElevenKept ==
    \E id \in DocIds : Cardinality(NonIgnored(id)) = FEEDBACK_MAX_UPLOADS + 1

\* ---------------------------------------------------------------- C15
\* C15: an upload call with a token that references no existing record
\* fails and appends no upload child anywhere in the store.
C15_UploadNeedsItsRecord ==
    [][\A req \in UploadRequests, token \in DocIds, faultAt \in StoreFaults :
         (UploadCall(req, token, faultAt, MaxCapChildren) /\ ~Exists(token))
         => (reply'.result # "token" /\ uploads' = uploads)]_vars

\* ---------------------------------------------------------------- C16
\* C16: a comment call with a token that references no existing record
\* fails, creates no record and publishes nothing; with the token of an
\* existing record it creates no record and, unless the store fails, writes
\* the subject, the message and the given name into that record and
\* leaves its other fields and the other records as they were.
C16_CommentWithToken ==
    [][\A req \in CommentRequests, token \in DocIds, faultAt \in StoreFaults :
         CommentCall(req, token, faultAt)
         => IF ~Exists(token)
            THEN reply'.result = "FIRESTORE FAIL" /\ docs' = docs /\ channel' = channel
            ELSE /\ DOMAIN docs' = DOMAIN docs /\ nextId' = nextId
                 /\ faultAt = 1 => docs' = docs
                 /\ faultAt # 1 =>
                        docs' = [docs EXCEPT ![token] =
                                    [@ EXCEPT !.feedbackSubject = req.subject,
                                              !.feedbackMessage = req.body,
                                              !.feedbackName =
                                                  IF req.name # "" THEN req.name ELSE @]]]_vars

\* the only record was deleted and the latest comment call failed in the
\* store, with nothing on the topic
C16_CommentAfterDeletion ==
    /\ reply.op = "comment" /\ reply.result = "FIRESTORE FAIL"
    /\ nextId > 1 /\ DOMAIN docs = {}
    /\ Pending(channel) = 0

\* ---------------------------------------------------------------- C17
\* the responses of a request that fails a check
UploadErrors == {"BAD AUTH", "BAD TOKEN", "BAD FILENAME", "BAD CONTENT", "BAD DATA"}
CommentErrors == {"BAD AUTH", "BAD TOKEN", "BAD CONTENT", "BAD DATA"}

\* C17: an upload call with a wrong or missing secret, a username that is
\* not an email followed by /token, no filename, a wrong content type, an
\* empty or an oversized body, and a comment call with a wrong or missing
\* secret, a wrong content type, an empty email, subject or message, or a
\* username that does not match the email, is answered with the error of
\* the check and changes no record, no upload child and no event,
\* whatever its token.
C17_RejectedCallsChangeNothing ==
    [][/\ \A req \in BadUploadRequests("e1"), token \in AnyToken, faultAt \in StoreFaults :
            UploadCall(req, token, faultAt, MaxChildren)
            => (reply'.result \in UploadErrors /\ NothingStoredOrPublished
                    /\ nextId' = nextId)
       /\ \A req \in BadCommentRequests("e1"), token \in AnyToken, faultAt \in StoreFaults :
            CommentCall(req, token, faultAt)
            => (reply'.result \in CommentErrors /\ NothingStoredOrPublished
                    /\ nextId' = nextId)]_vars

\* a comment call was rejected for its username while a draft was waiting
\* for its comment
C17_RejectedWithDraft ==
    /\ reply.op = "comment" /\ reply.result = "BAD AUTH"
    /\ \E id \in DOMAIN docs : docs[id].feedbackMessage = "" /\ Len(uploads[id]) = 1

\* ---------------------------------------------------------------- C18
\* C18: a comment call whose store operation succeeds and whose publish
\* fails answers with the channel failure and leaves its record existing,
\* with a non-empty subject and message and with archivedAt empty; a
\* comment call whose store operation fails publishes nothing.
C18_PublishFailureLeavesOpenRecord ==
    [][\A req \in CommentRequests, token \in AnyToken :
         /\ (CommentCall(req, token, 2) /\ (token # NO_TOKEN => Exists(token)))
            => LET id == IF token = NO_TOKEN THEN nextId ELSE token
               IN  /\ reply'.result = "PUBSUB FAIL"
                   /\ id \in DOMAIN docs'
                   /\ docs'[id].feedbackSubject # "" /\ docs'[id].feedbackMessage # ""
                   /\ docs'[id].archivedTimestamp = EmptyStr
         /\ CommentCall(req, token, 1) => channel' = channel]_vars

\* ---------------------------------------------------------------- C19
\* C19: a call without a token that creates a record creates, for an
\* upload, a draft with hasUploads true and, for a comment, a finalized
\* record with hasUploads false and archivedAt empty; records are created
\* in no other way, and no step changes hasUploads of a record.
C19_HasUploadsIffMadeByUpload ==
    [][/\ \A id \in DOMAIN docs' \ DOMAIN docs :
            \/ /\ \E req \in UploadRequests, faultAt \in StoreFaults :
                      UploadCall(req, NO_TOKEN, faultAt, MaxChildren)
               /\ docs'[id].hasUploads
               /\ docs'[id].feedbackMessage = ""
            \/ /\ \E req \in CommentRequests, faultAt \in StoreFaults :
                      CommentCall(req, NO_TOKEN, faultAt)
               /\ ~docs'[id].hasUploads
               /\ docs'[id].feedbackMessage # ""
               /\ docs'[id].archivedTimestamp = EmptyStr
       /\ \A id \in DOMAIN docs' \cap DOMAIN docs :
            docs'[id].hasUploads = docs[id].hasUploads]_vars

\* a record made by an upload, commented, delivered and stamped, with the
\* flag it was made with
C19_UploadedRecordStamped ==
    \E id \in DOMAIN docs :
        /\ docs[id].hasUploads /\ Len(uploads[id]) = 1
        /\ docs[id].feedbackMessage # "" /\ stamps[id] = 1

\* ---------------------------------------------------------------- C20
\* C20: the message sent for a record with hasUploads carries exactly one
\* attachment per upload child that is not marked ignored, and none for a
\* child that is.
C20_IgnoredChildrenNotAttached ==
    [][\A r \in BagToSet(runs) :
         (runs' = runs (-) SetToBag({r}) /\ outbox' # outbox /\ r.doc.hasUploads)
         => LET id == r.msg.docId
                sent == outbox'[id][Len(outbox'[id])]
                Kept(u) == ~u.uploadIgnored
            IN  sent.files = SelectSeq(uploads[id], Kept)]_vars

\* ---------------------------------------------------------------- C21
\* the retry event of a record
RetryMsg(id) == [action |-> FEEDBACK_PUBSUB_ACTION_CARETAKER_RETRY, docId |-> id]
SweepFaults == 0..4

SweepStep(faultAt) ==
    /\ reply'.op = "caretaker"
    /\ UNCHANGED <<now, ticks, nextId, uploads, runs, outbox, stamps, calls>>
    /\ Caretaker({faultAt})

C23_MissingRecordIsTerminal ==
    [][(MailgunPubsub({FALSE}, MaxRuns) /\ DOMAIN docs = {})
       => /\ Pending(channel') = Pending(channel) - 1
          /\ reply'.result = "not found"
          /\ runs' = runs /\ outbox' = outbox /\ docs' = docs /\ stamps' = stamps]_vars

\* ---------------------------------------------------------------- C24
\* C24: after a sweep, a record the sweep deleted, expired archive or
\* reaped draft, has no upload child left.
C24_ChildrenDeletedWithRecord ==
    [][Caretaker(SweepFaults)
       => \A id \in reply'.sweep.expired \cup reply'.sweep.reaped :
              uploads'[id] = <<>>]_vars

\* ---------------------------------------------------------------- C25
SubmittedMsg(id) == [action |-> FEEDBACK_PUBSUB_ACTION_NEWFEEDBACK, docId |-> id]
SendFaults == 0..3

\* C25: in every state, for every id, every response of the store and of
\* Mailgun, the handler does the same with the Submitted event and with the
\* CaretakerRetry event of that id, and the send that follows a read of
\* the record gives the same emails, the same store, the same stamps and
\* the same result for both.
C25_ActionDoesNotMatter ==
    \A id \in DocIds :
        /\ \A getFails \in BOOLEAN, missing \in MissingDocOutcomes :
               PubsubOutcome(SubmittedMsg(id), getFails, missing)
                   = PubsubOutcome(RetryMsg(id), getFails, missing)
        /\ \A faultAt \in SendFaults :
               Exists(id) =>
                   SendOutcome([msg |-> SubmittedMsg(id), doc |-> docs[id]], faultAt)
                       = SendOutcome([msg |-> RetryMsg(id), doc |-> docs[id]], faultAt)

\* an invocation that read a finalized, unarchived record for a
\* CaretakerRetry event is about to send, while the Submitted event of the
\* record is still on the topic
C25_RetryRunBeforeSubmitted ==
    \E r \in BagToSet(runs) :
        /\ r.msg.action = FEEDBACK_PUBSUB_ACTION_CARETAKER_RETRY
        /\ r.doc.feedbackMessage # "" /\ ~Archived(r.doc)
        /\ channel[SubmittedMsg(r.msg.docId)] > 0

\* ---------------------------------------------------------------- C26
\* a message without an action, with an action that is not one of the two
\* of the application, or without a document id
NotForUs(m) ==
    \/ m.action \notin {"feedbackSumitted", "caretakerRetry"}
    \/ m.docId = NO_TOKEN

\* C26: the handler ends normally on every message that has no action, an
\* unknown action or no document id, whatever the store would answer: the
\* message is acknowledged and no invocation goes on to the send; and a
\* step of the handler never changes a record, an email or a stamp.
C26_UnknownEventsIgnored ==
    /\ [](\A m \in Msgs : NotForUs(m) =>
             \A getFails \in BOOLEAN, missing \in MissingDocOutcomes :
                 PubsubOutcome(m, getFails, missing)
                     = [acked |-> TRUE, sends |-> FALSE, result |-> "ignored"])
    /\ [][MailgunPubsub(BOOLEAN, MaxRuns)
             => (docs' = docs /\ uploads' = uploads /\ outbox' = outbox
                     /\ stamps' = stamps)]_vars

\* the latest delivery ignored its message while a finalized record was
\* waiting for its email, and no invocation is running
C26_IgnoredBesideOpenRecord ==
    /\ reply.op = "mailgun" /\ reply.result = "ignored"
    /\ runs = EmptyBag
    /\ \E id \in DOMAIN docs : docs[id].feedbackMessage # "" /\ ~Archived(docs[id])

\* ---------------------------------------------------------------- C27
C27_BothOrNeither ==
    \A id \in DOMAIN docs :
        docs[id].archivedTimestamp # EmptyStr <=> docs[id].mailgunMessageId # 0

C27_WrittenByTheStampOnly ==
    \A id \in DOMAIN docs' :
        IF id \in DOMAIN docs
        THEN (\/ docs'[id].archivedTimestamp # docs[id].archivedTimestamp
              \/ docs'[id].mailgunMessageId # docs[id].mailgunMessageId)
             => /\ stamps'[id] = stamps[id] + 1
                /\ docs'[id].archivedTimestamp # EmptyStr
                /\ docs'[id].mailgunMessageId # 0
        ELSE docs'[id].archivedTimestamp = EmptyStr /\ docs'[id].mailgunMessageId = 0

\* C27: in every state every record has archivedTimestamp set exactly when
\* it has a Mailgun message id; a record is created with neither, and a
\* step that changes one of the two is a stamp, after which both are set.
C27_StampedTogether == []C27_BothOrNeither /\ [][C27_WrittenByTheStampOnly]_vars

\* a record that was stamped twice carries the id of the second email
C27_SecondStamp ==
    \E id \in DOMAIN docs :
        /\ stamps[id] = 2 /\ docs[id].mailgunMessageId = 2
        /\ docs[id].archivedTimestamp # EmptyStr

\* ---------------------------------------------------------------- C28
\* the end of the create call c: its test and, when the test passes, its add
C28_EndOfCreate(c) ==
    LET email == c.req.username.email
        before == Cardinality(OpenRecords(email))
        after == Cardinality({id \in DOMAIN docs' :
                     docs'[id].feedbackEmail = email
                     /\ docs'[id].archivedTimestamp = EmptyStr})
    IN  /\ c.seen >= FEEDBACK_MAX_PENDING_SUBMITS => docs' = docs
        /\ c.seen < FEEDBACK_MAX_PENDING_SUBMITS => after = before + 1
        /\ c.seen = before =>
               after = before \/ after <= FEEDBACK_MAX_PENDING_SUBMITS
        /\ (after > before /\ after > FEEDBACK_MAX_PENDING_SUBMITS) =>
               c.seen < FEEDBACK_MAX_PENDING_SUBMITS /\ c.seen < before

\* C28: a create call whose query returned fewer than MAX_PENDING open
\* records adds a record whatever has been added since, so the add of a
\* call whose count is out of date can take the sender past MAX_PENDING;
\* a call that is refused adds nothing, and a call whose count is still
\* the present one never takes the sender past MAX_PENDING.
C28_QuotaIsCheckThenAct ==
    [][\A c \in BagToSet(calls) :
          (c.token = NO_TOKEN /\ calls' = calls (-) SetToBag({c}))
              => C28_EndOfCreate(c)]_vars

\* more open records of one sender than MAX_PENDING, left by the add of a
\* call that counted before another call added
C28_PastTheQuota ==
    \E email \in UploadEmails \cup CommentEmails :
        Cardinality(OpenRecords(email)) > FEEDBACK_MAX_PENDING_SUBMITS

\* ---------------------------------------------------------------- C29
C29_SetAtCreation(d) ==
    /\ d.feedbackEmail # ""
    /\ d.clientIp # ""
    /\ d.feedbackTimestamp = IsoformatAware(now)

C29_Kept(d, e) ==
    /\ e.feedbackEmail = d.feedbackEmail
    /\ e.clientIp = d.clientIp
    /\ e.feedbackTimestamp = d.feedbackTimestamp

\* C29: a step that creates a record sets its email, its client address
\* and its creation time; every step that leaves the record in the store
\* leaves the three fields as they were.
C29_CreationFieldsImmutable ==
    [][\A id \in DOMAIN docs' :
          IF id \in DOMAIN docs THEN C29_Kept(docs[id], docs'[id])
                                ELSE C29_SetAtCreation(docs'[id])]_vars

\* a record an upload of one sender made, that a later comment call of
\* another sender completed with the token, stamped later still
C29_CommentedByAnotherAndStamped ==
    \E id \in DOMAIN docs :
        /\ docs[id].hasUploads /\ docs[id].feedbackEmail = "e1"
        /\ docs[id].feedbackName = "n2"
        /\ stamps[id] > 0
        /\ docs[id].feedbackTimestamp.t < docs[id].archivedTimestamp.t

\* ---------------------------------------------------------------- C30
\* C30: a step that stamps a record leaves its subject, its message and
\* its name as they were in the store just before the stamp, whatever the
\* run read earlier.
C30_StampKeepsComment ==
    [][\A id \in DOMAIN docs :
          stamps'[id] = stamps[id] + 1
              => /\ id \in DOMAIN docs'
                 /\ docs'[id].feedbackSubject = docs[id].feedbackSubject
                 /\ docs'[id].feedbackMessage = docs[id].feedbackMessage
                 /\ docs'[id].feedbackName = docs[id].feedbackName]_vars

\* ---------------------------------------------------------------- C31
\* C31: a step that leaves an archived record in the store leaves its
\* subject, its message and its name as they were.
C31_ArchivedContentFrozen ==
    [][\A id \in DOMAIN docs :
          (docs[id].archivedTimestamp # EmptyStr /\ id \in DOMAIN docs')
              => /\ docs'[id].feedbackSubject = docs[id].feedbackSubject
                 /\ docs'[id].feedbackMessage = docs[id].feedbackMessage
                 /\ docs'[id].feedbackName = docs[id].feedbackName]_vars
====
